---- MODULE Spec2Model ----
(***************************************************************************)
(* The ATM cash dispenser of atm_core.py (used by main.py) and of the      *)
(* single-file variant atm.py: the note inventory `cash`, the state file   *)
(* and its temporary sibling, the backtracking breakdown and the           *)
(* operations load_state, save_state, add_cash and withdraw.  save_state   *)
(* is modelled one file-system call at a time, so that a process can be    *)
(* killed, or a call can raise IOError, between any two of them.           *)
(***************************************************************************)
EXTENDS Integers, Sequences, FiniteSets, TLC

VARIABLES
    impl,        \* which module runs: "atm_core" (main.py) or "atm" (atm.py)
    state_file,  \* the file at self.state_file
    temp_file,   \* the file at self.state_file + ".tmp"
    cash,        \* cash[p]: self.cash of process p, its entries with an int value
    text,        \* text[p]: the keys of self.cash whose value is a JSON string
    pc,          \* pc[p]: where process p stands
    op,          \* op[p]: the operation process p runs or has last completed
    crash,       \* crash[p]: what the last kill of process p interrupted
    failed,      \* failed[p]: an IOError was raised since process p started
    nOps,        \* nOps[p]: add_cash and withdraw calls of process p so far
    nFault       \* kills and IOErrors so far

vars ==
    <<impl, state_file, temp_file, cash, text, pc, op, crash, failed, nOps, nFault>>

(***************************************************************************)
(* Bounds of the exploration.                                              *)
(***************************************************************************)
MaxCount == 2      \* note counts in the state files found at start-up: 0..MaxCount
MaxOps == 1        \* add_cash / withdraw calls per process
MaxFault == 1      \* kills and IOErrors per behaviour

(***************************************************************************)
(* Program constants.                                                      *)
(***************************************************************************)
DefaultCount == 20
Unit == 100

\* operating-system processes that may run the program on the same state file
Procs == {1, 2}

\* self.cash = {500: 20, 200: 20, 100: 20}
DefaultCash == [d \in {500, 200, 100} |-> DefaultCount]

Min(a, b) == IF a <= b THEN a ELSE b

(***************************************************************************)
(* Files.  A file is absent, holds text that json.load rejects (written    *)
(* by hand, or left half-written), or holds a JSON object: a set of        *)
(* <<key, value>> members whose keys are strings, here sequences of        *)
(* one-character strings, and whose values are ints, and the keys of the   *)
(* members whose value is a string.                                        *)
(***************************************************************************)
Absent == [kind |-> "absent", obj |-> {}, text |-> {}]
Garbage == [kind |-> "garbage", obj |-> {}, text |-> {}]
Json(members) == [kind |-> "json", obj |-> members, text |-> {}]

\* a JSON object that also has members whose value is a string, `keys` being
\* the keys of those
JsonWithText(members, keys) == [kind |-> "json", obj |-> members, text |-> keys]

DigitChars == <<"0", "1", "2", "3", "4", "5", "6", "7", "8", "9">>

DigitValue(ch) == (CHOOSE i \in 1..10 : DigitChars[i] = ch) - 1

\* str(n) for n >= 0, the key json.dump writes for the int key n
RECURSIVE Str(_)
Str(n) ==
    IF n < 10 THEN <<DigitChars[n + 1]>>
    ELSE Append(Str(n \div 10), DigitChars[(n % 10) + 1])

\* int(k) raises ValueError unless k is a non-empty run of digits
IsIntText(k) ==
    Len(k) > 0 /\ \A i \in 1..Len(k) : \E j \in 1..10 : DigitChars[j] = k[i]

\* int(k, 8): the key read in base 8
RECURSIVE ParseOctal(_)
ParseOctal(k) ==
    IF Len(k) = 0 THEN 0
    ELSE 8 * ParseOctal(SubSeq(k, 1, Len(k) - 1)) + DigitValue(k[Len(k)])

\* int(k) for a run of digits
RECURSIVE ParseInt(_)
ParseInt(k) ==
    IF Len(k) = 0 THEN 0
    ELSE 10 * ParseInt(SubSeq(k, 1, Len(k) - 1)) + DigitValue(k[Len(k)])

\* json.dump(self.cash, f): one member per key, the key as text
Dump(c) == Json({<<Str(d), c[d]>> : d \in DOMAIN c})

\* {int(k): v for k, v in data.items()}
Load(members) ==
    [d \in {ParseInt(m[1]) : m \in members} |->
        (CHOOSE m \in members : ParseInt(m[1]) = d)[2]]

\* json.load and the comprehension of load_state raise no ValueError
Loadable(f) ==
    /\ f.kind = "json"
    /\ \A m \in f.obj : IsIntText(m[1])
    /\ \A k \in f.text : IsIntText(k)

(***************************************************************************)
(* get_breakdown.  A plan is a function from the denominations it uses to  *)
(* positive counts; solve returns None or a plan.                          *)
(***************************************************************************)
None == [found |-> FALSE, plan |-> <<>>]
Some(plan) == [found |-> TRUE, plan |-> plan]

\* sorted(self.cash.keys()): the denominations from the smallest up
RECURSIVE SortedAsc(_)
SortedAsc(S) ==
    IF S = {} THEN <<>>
    ELSE LET m == CHOOSE x \in S : \A y \in S : x <= y
         IN  <<m>> \o SortedAsc(S \ {m})

\* sorted(self.cash.keys(), reverse=True)
RECURSIVE SortedDesc(_)
SortedDesc(S) ==
    IF S = {} THEN <<>>
    ELSE LET m == CHOOSE x \in S : \A y \in S : y <= x
         IN  <<m>> \o SortedDesc(S \ {m})

\* result[denom] = count
SetItem(plan, denom, count) ==
    [d \in DOMAIN plan \cup {denom} |-> IF d = denom THEN count ELSE plan[d]]

\* if count > 0: result[denom] = count
Merge(result, denom, count) ==
    IF count > 0 THEN SetItem(result, denom, count) ELSE result

\* a max_use that forgets the notes in stock
MaxUseUnlimited(c, denom, target) == target \div denom

\* max_use = min(self.cash[denom], target // denom)
MaxUse(c, denom, target) == Min(c[denom], target \div denom)

RECURSIVE solve(_, _, _, _), tryCounts(_, _, _, _, _)

\* a loop that counts upwards, for count in range(0, max_use + 1)
RECURSIVE tryUpwards(_, _, _, _, _, _)
tryUpwards(c, denominations, target, idx, count, last) ==
    IF count > last THEN None
    ELSE LET denom == denominations[idx]
             remainder == target - (count * denom)
             result == solve(c, denominations, remainder, idx + 1)
         IN  IF result.found
             THEN Some(Merge(result.plan, denom, count))
             ELSE tryUpwards(c, denominations, target, idx, count + 1, last)

tryCountsAscending(c, denominations, target, idx, count) ==
    tryUpwards(c, denominations, target, idx, 0, count)

\* a loop that tries the largest count only and never backtracks
tryLargestOnly(c, denominations, target, idx, count) ==
    IF count < 0 THEN None
    ELSE LET denom == denominations[idx]
             result == solve(c, denominations, target - (count * denom), idx + 1)
         IN  IF result.found
             THEN Some(Merge(result.plan, denom, count))
             ELSE None

\* for count in range(max_use, -1, -1): the loop from `count` downwards
tryCounts(c, denominations, target, idx, count) ==
    IF count < 0 THEN None
    ELSE LET denom == denominations[idx]
             remainder == target - (count * denom)
             result == solve(c, denominations, remainder, idx + 1)
         IN  IF result.found
             THEN Some(Merge(result.plan, denom, count))
             ELSE tryCounts(c, denominations, target, idx, count - 1)

\* solve(target, idx); idx counts from 1 here
solve(c, denominations, target, idx) ==
    IF target = 0 THEN Some(<<>>)
    ELSE IF idx > Len(denominations) THEN None
    ELSE tryCounts(c, denominations, target, idx,
                   MaxUse(c, denominations[idx], target))

get_breakdown(c, amount) == solve(c, SortedDesc(DOMAIN c), amount, 1)

\* sum(k * v for k, v in self.cash.items())
RECURSIVE TotalOver(_, _)
TotalOver(c, S) ==
    IF S = {} THEN 0
    ELSE LET d == CHOOSE x \in S : TRUE
         IN  d * c[d] + TotalOver(c, S \ {d})

total_balance(c) == TotalOver(c, DOMAIN c)

(***************************************************************************)
(* What the program is started on, and what it is asked.                   *)
(***************************************************************************)
Impls == {"atm_core", "atm"}

\* the inventories of the state files found at start-up: the default
\* denominations, the two largest only (with one note more, so that three
\* notes of 200 can stand in for a note of 500 that leads nowhere), and a
\* single denomination below 100
StartInventories ==
    [{500, 200, 100} -> 0..MaxCount]
        \cup [{500, 200} -> 0..(MaxCount + 1)]
        \cup [{50} -> 0..MaxCount]

\* a state file whose key is not the text of an integer
BadKeyFile == Json({<<<<"x">>, 1>>})

\* a state file with integer keys in which one value is a string:
\* {"500": "abc", "100": 1}
BadValueFile == JsonWithText({<<Str(100), 1>>}, {Str(500)})

StartFiles ==
    {Absent, Garbage, BadKeyFile, BadValueFile}
        \cup {Dump(c) : c \in StartInventories}

Amounts == {-100, 0, 50, 150, 300, 600, 700}

Denominations == {500, 200, 999}

Counts == {-1, 0, 1}

\* where a process stands once save_state has opened the temporary file
SaveSteps == {"save_write", "save_remove", "save_rename", "save_done"}

\* the record of an operation that starts on inventory c: its name, its
\* arguments a and b, the inventory as it found it, the plan it computed,
\* what it returned or raised, the state file as save_state found it,
\* whether save_state replaced it, and the levels it logged
NewOp(name, a, b, c) ==
    [name |-> name, a |-> a, b |-> b, pre |-> c, plan |-> <<>>,
     result |-> "running", msg |-> "", old |-> Absent, io |-> "none",
     log |-> <<>>]

NoCrash == [at |-> "none", old |-> Absent, new |-> <<>>]

Init ==
    /\ impl \in Impls
    /\ state_file \in StartFiles
    /\ temp_file = Absent
    /\ cash = [p \in Procs |-> DefaultCash]
    /\ text = [p \in Procs |-> {}]
    /\ pc = [p \in Procs |-> IF p = 1 THEN "load" ELSE "off"]
    /\ op = [p \in Procs |-> NewOp("init", 0, 0, DefaultCash)]
    /\ crash = [p \in Procs |-> NoCrash]
    /\ failed = [p \in Procs |-> FALSE]
    /\ nOps = [p \in Procs |-> 0]
    /\ nFault = 0

\* logging.info / logging.warning / logging.error: the levels one operation logs
Logged(o, level) == [o EXCEPT !.log = Append(@, level)]

Returned(o, result, msg) == [o EXCEPT !.result = result, !.msg = msg]

(***************************************************************************)
(* load_state, run by __init__ on the default inventory.                   *)
(***************************************************************************)
load_state(p) ==
    /\ pc[p] = "load"
    /\ \/ /\ state_file.kind = "absent"
          /\ pc' = [pc EXCEPT ![p] = "save_open"]
          /\ UNCHANGED <<cash, text, op, failed, nFault>>
       \/ /\ state_file.kind # "absent"
          /\ Loadable(state_file)
          /\ cash' = [cash EXCEPT ![p] = Load(state_file.obj)]
          /\ text' = [text EXCEPT ![p] = {ParseInt(k) : k \in state_file.text}]
          /\ op' = [op EXCEPT ![p] = Returned(@, "ok", "")]
          /\ pc' = [pc EXCEPT ![p] = "idle"]
          /\ UNCHANGED <<failed, nFault>>
       \/ /\ state_file.kind # "absent"
          /\ ~Loadable(state_file)
          /\ op' = [op EXCEPT ![p] = Logged(@, "error")]
          /\ pc' = [pc EXCEPT ![p] = "save_open"]
          /\ UNCHANGED <<cash, text, failed, nFault>>
       \/ /\ state_file.kind # "absent"
          /\ nFault < MaxFault
          /\ nFault' = nFault + 1
          /\ failed' = [failed EXCEPT ![p] = TRUE]
          /\ op' = [op EXCEPT ![p] =
                       Returned(Logged([@ EXCEPT !.io = "failed"], "error"), "ok", "")]
          /\ pc' = [pc EXCEPT ![p] = "idle"]
          /\ UNCHANGED <<cash, text>>
    /\ UNCHANGED <<impl, state_file, temp_file, crash, nOps>>

(***************************************************************************)
(* save_state, one file-system call per step.                              *)
(***************************************************************************)
\* open(temp_file, "w"): the temporary file exists and is empty
save_open(p) ==
    /\ pc[p] = "save_open"
    /\ temp_file' = Garbage
    /\ op' = [op EXCEPT ![p].old = state_file]
    /\ pc' = [pc EXCEPT ![p] = "save_write"]
    /\ UNCHANGED <<impl, text, state_file, cash, crash, failed, nOps, nFault>>

\* a save that goes on before json.dump has written anything
save_write_nothing(p) ==
    /\ pc[p] = "save_write"
    /\ temp_file' = Garbage
    /\ pc' = [pc EXCEPT ![p] = "save_remove"]
    /\ UNCHANGED <<impl, text, state_file, cash, op, crash, failed, nOps, nFault>>

\* a save that writes the inventory the operation started on
save_write_stale(p) ==
    /\ pc[p] = "save_write"
    /\ temp_file' = Dump(op[p].pre)
    /\ pc' = [pc EXCEPT ![p] = "save_remove"]
    /\ UNCHANGED <<impl, text, state_file, cash, op, crash, failed, nOps, nFault>>

\* json.dump(self.cash, f, indent=4), and the file is closed
save_write(p) ==
    /\ pc[p] = "save_write"
    /\ temp_file' = [Dump(cash[p]) EXCEPT !.text = {Str(d) : d \in text[p]}]
    /\ pc' = [pc EXCEPT ![p] = "save_remove"]
    /\ UNCHANGED <<impl, text, state_file, cash, op, crash, failed, nOps, nFault>>

\* if os.path.exists(self.state_file): os.remove(self.state_file)
save_remove(p) ==
    /\ pc[p] = "save_remove"
    /\ state_file' = Absent
    /\ pc' = [pc EXCEPT ![p] = "save_rename"]
    /\ UNCHANGED <<impl, text, temp_file, cash, op, crash, failed, nOps, nFault>>

\* os.rename(temp_file, self.state_file)
save_rename(p) ==
    /\ pc[p] = "save_rename"
    /\ temp_file.kind # "absent"
    /\ state_file' = temp_file
    /\ temp_file' = Absent
    /\ op' = [op EXCEPT ![p].io = "saved"]
    /\ pc' = [pc EXCEPT ![p] = "save_done"]
    /\ UNCHANGED <<impl, text, cash, crash, failed, nOps, nFault>>

\* one of the four calls raises IOError: except IOError logs it, and
\* save_state returns (a failing open has still found the state file as it is)
save_IOError(p) ==
    /\ pc[p] \in {"save_open", "save_write", "save_remove", "save_rename"}
    /\ pc[p] = "save_remove" => state_file.kind # "absent"
    /\ nFault < MaxFault
    /\ nFault' = nFault + 1
    /\ failed' = [failed EXCEPT ![p] = TRUE]
    /\ op' = [op EXCEPT ![p] =
                 Logged([@ EXCEPT !.io = "failed",
                                  !.old = IF pc[p] = "save_open"
                                          THEN state_file ELSE @], "error")]
    /\ pc' = [pc EXCEPT ![p] = "save_done"]
    /\ UNCHANGED <<impl, text, state_file, temp_file, cash, crash, nOps>>

\* save_state has returned to load_state, add_cash or withdraw, which logs
\* the transaction and returns
save_done(p) ==
    /\ pc[p] = "save_done"
    /\ op' = [op EXCEPT ![p] =
                 Returned(IF @.name = "init" THEN @ ELSE Logged(@, "info"), "ok", "")]
    /\ pc' = [pc EXCEPT ![p] = "idle"]
    /\ UNCHANGED <<impl, text, state_file, temp_file, cash, crash, failed, nOps, nFault>>

(***************************************************************************)
(* add_cash(denomination, count)                                           *)
(***************************************************************************)
\* what add_cash does on a denomination that is not a key of self.cash
RejectDenomination(o) ==
    IF impl = "atm_core"
    THEN Returned(o, "InvalidAmountError", "Invalid denomination")
    ELSE Returned(o, "None", "")

\* an assignment in place of the increment
SetNotes(c, denomination, count) == [c EXCEPT ![denomination] = count]

\* self.cash[denomination] += count
AddNotes(c, denomination, count) == [c EXCEPT ![denomination] = @ + count]

add_cash(p, denomination, count) ==
    /\ pc[p] = "idle"
    /\ nOps[p] < MaxOps
    /\ nOps' = [nOps EXCEPT ![p] = @ + 1]
    /\ LET o == NewOp("add_cash", denomination, count, cash[p])
       IN  IF denomination \notin DOMAIN cash[p] \cup text[p]
           THEN /\ op' = [op EXCEPT ![p] = RejectDenomination(o)]
                /\ UNCHANGED <<cash, pc>>
           ELSE IF denomination \in text[p]
           THEN \* str += int raises TypeError, which nothing here catches
                /\ op' = [op EXCEPT ![p] = Returned(o, "TypeError", "")]
                /\ UNCHANGED <<cash, pc>>
           ELSE /\ cash' = [cash EXCEPT ![p] = AddNotes(@, denomination, count)]
                /\ op' = [op EXCEPT ![p] = o]
                /\ pc' = [pc EXCEPT ![p] = "save_open"]
    /\ UNCHANGED <<impl, text, state_file, temp_file, crash, failed, nFault>>

(***************************************************************************)
(* withdraw(amount)                                                        *)
(***************************************************************************)
\* if not plan: None and the empty plan are both falsy
NoPlan(r) == ~r.found \/ DOMAIN r.plan = {}

CannotDispense ==
    IF impl = "atm_core"
    THEN "Cannot dispense this amount with available notes."
    ELSE "Cannot dispense this amount with available denominations."

\* the checks of withdraw with the search run before the total is compared
CheckSearchFirst(c, amount) ==
    IF amount <= 0
    THEN <<"InvalidAmountError", "Amount must be positive.">>
    ELSE IF amount % Unit # 0
    THEN <<"InvalidAmountError", "Amount must be a multiple of 100.">>
    ELSE IF NoPlan(get_breakdown(c, amount))
    THEN <<"InsufficientFundsError", CannotDispense>>
    ELSE IF amount > total_balance(c)
    THEN <<"InsufficientFundsError", "ATM Insufficient funds.">>
    ELSE <<"ok", "">>

\* the checks of withdraw without the one on the modulus
CheckWithoutModulus(c, amount) ==
    IF amount <= 0
    THEN <<"InvalidAmountError", "Amount must be positive.">>
    ELSE IF amount > total_balance(c)
    THEN <<"InsufficientFundsError", "ATM Insufficient funds.">>
    ELSE IF NoPlan(get_breakdown(c, amount))
    THEN <<"InsufficientFundsError", CannotDispense>>
    ELSE <<"ok", "">>

\* the exception withdraw raises, as <<class, message>>, or <<"ok", "">>
Check(c, amount) ==
    IF amount <= 0
    THEN <<"InvalidAmountError", "Amount must be positive.">>
    ELSE IF amount % Unit # 0
    THEN <<"InvalidAmountError", "Amount must be a multiple of 100.">>
    ELSE IF amount > total_balance(c)
    THEN <<"InsufficientFundsError", "ATM Insufficient funds.">>
    ELSE IF NoPlan(get_breakdown(c, amount))
    THEN <<"InsufficientFundsError", CannotDispense>>
    ELSE <<"ok", "">>

\* a loop that takes one note of each denomination of the plan
DispenseOneEach(c, plan) ==
    [d \in DOMAIN c |-> IF d \in DOMAIN plan THEN c[d] - 1 ELSE c[d]]

\* for denom, count in plan.items(): self.cash[denom] -= count
Dispense(c, plan) ==
    [d \in DOMAIN c |-> IF d \in DOMAIN plan THEN c[d] - plan[d] ELSE c[d]]

\* atm.py logs a warning before it re-raises; atm_core.py raises
Raised(o, e) ==
    IF impl = "atm"
    THEN Logged(Returned(o, e[1], e[2]), "warning")
    ELSE Returned(o, e[1], e[2])

\* a withdraw that runs save_state on the way out of a failed request too
withdraw_always_saves(p, amount) ==
    /\ pc[p] = "idle"
    /\ nOps[p] < MaxOps
    /\ nOps' = [nOps EXCEPT ![p] = @ + 1]
    /\ LET o == NewOp("withdraw", amount, 0, cash[p])
           e == Check(cash[p], amount)
           plan == get_breakdown(cash[p], amount).plan
       IN  IF e[1] # "ok"
           THEN /\ op' = [op EXCEPT ![p] = Raised(o, e)]
                /\ pc' = [pc EXCEPT ![p] = "save_open"]
                /\ UNCHANGED cash
           ELSE /\ cash' = [cash EXCEPT ![p] = Dispense(@, plan)]
                /\ op' = [op EXCEPT ![p] = [o EXCEPT !.plan = plan]]
                /\ pc' = [pc EXCEPT ![p] = "save_open"]
    /\ UNCHANGED <<impl, text, state_file, temp_file, crash, failed, nFault>>

withdraw(p, amount) ==
    /\ pc[p] = "idle"
    /\ nOps[p] < MaxOps
    /\ nOps' = [nOps EXCEPT ![p] = @ + 1]
    /\ LET o == NewOp("withdraw", amount, 0, cash[p])
           e == IF text[p] # {} /\ amount > 0 /\ amount % Unit = 0
                THEN \* sum(k * v ...) over a str value raises TypeError
                     <<"TypeError", "">>
                ELSE Check(cash[p], amount)
           plan == get_breakdown(cash[p], amount).plan
       IN  IF e[1] = "TypeError"
           THEN /\ op' = [op EXCEPT ![p] = Returned(o, e[1], e[2])]
                /\ UNCHANGED <<cash, pc>>
           ELSE IF e[1] # "ok"
           THEN /\ op' = [op EXCEPT ![p] = Raised(o, e)]
                /\ UNCHANGED <<cash, pc>>
           ELSE /\ cash' = [cash EXCEPT ![p] = Dispense(@, plan)]
                /\ op' = [op EXCEPT ![p] = [o EXCEPT !.plan = plan]]
                /\ pc' = [pc EXCEPT ![p] = "save_open"]
    /\ UNCHANGED <<impl, text, state_file, temp_file, crash, failed, nFault>>

(***************************************************************************)
(* The process is killed inside save_state and the program is started      *)
(* again on the same path: __init__ sets the default inventory and calls   *)
(* load_state.                                                             *)
(***************************************************************************)
Crash(p) ==
    /\ pc[p] \in SaveSteps
    /\ crash' = [crash EXCEPT ![p] =
                    [at |-> pc[p], old |-> op[p].old, new |-> cash[p]]]
    /\ cash' = [cash EXCEPT ![p] = DefaultCash]
    /\ text' = [text EXCEPT ![p] = {}]
    /\ op' = [op EXCEPT ![p] = NewOp("init", 0, 0, DefaultCash)]
    /\ nFault < MaxFault
    /\ nFault' = nFault + 1
    /\ failed' = [failed EXCEPT ![p] = FALSE]
    /\ pc' = [pc EXCEPT ![p] = "load"]
    /\ UNCHANGED <<impl, state_file, temp_file, nOps>>

Next ==
    \E p \in Procs :
        \/ load_state(p)
        \/ save_open(p)
        \/ save_write(p)
        \/ save_remove(p)
        \/ save_rename(p)
        \/ save_IOError(p)
        \/ save_done(p)
        \/ \E a \in Amounts : withdraw(p, a)
        \/ \E d \in Denominations, n \in Counts : add_cash(p, d, n)
        \/ Crash(p)

Spec == Init /\ [][Next]_vars

(***************************************************************************)
(* Two processes started on the same state file, with nothing to exclude   *)
(* one another.  They take turns between calls: a process takes a step     *)
(* only while the other one is not inside a call, so that every call runs  *)
(* to completion before the next call of any process starts.               *)
(***************************************************************************)
StartFilesTwo ==
    {Absent, Garbage, Dump([d \in {500, 200, 100} |-> MaxCount])}

AmountsTwo == {50, 300, 600}

DenominationsTwo == {200}

CountsTwo == {1}

InitTwo ==
    /\ impl \in Impls
    /\ state_file \in StartFilesTwo
    /\ temp_file = Absent
    /\ cash = [p \in Procs |-> DefaultCash]
    /\ text = [p \in Procs |-> {}]
    /\ pc = [p \in Procs |-> "load"]
    /\ op = [p \in Procs |-> NewOp("init", 0, 0, DefaultCash)]
    /\ crash = [p \in Procs |-> NoCrash]
    /\ failed = [p \in Procs |-> FALSE]
    /\ nOps = [p \in Procs |-> 0]
    /\ nFault = 0

\* no other process is inside a call
Quiet(p) == \A q \in Procs \ {p} : pc[q] \in {"load", "idle"}

NextTwo ==
    \E p \in Procs :
        \/ Quiet(p) /\ load_state(p)
        \/ Quiet(p) /\ save_open(p)
        \/ Quiet(p) /\ save_write(p)
        \/ Quiet(p) /\ save_remove(p)
        \/ Quiet(p) /\ save_rename(p)
        \/ Quiet(p) /\ save_done(p)
        \/ Quiet(p) /\ \E a \in AmountsTwo : withdraw(p, a)
        \/ Quiet(p) /\ \E d \in DenominationsTwo, n \in CountsTwo : add_cash(p, d, n)

SpecTwo == InitTwo /\ [][NextTwo]_vars

(***************************************************************************)
(* get_breakdown on its own: a process at rest on an inventory, with the   *)
(* state file that holds it, is asked for one amount.                      *)
(***************************************************************************)
BreakdownInventories ==
    StartInventories \cup [{500, 200, 100} -> 0..(MaxCount + 1)]

BreakdownAmounts == {Unit * k : k \in 1..(8 * MaxCount)}

InitBreakdown ==
    /\ impl \in Impls
    /\ \E c \in BreakdownInventories :
          /\ state_file = Dump(c)
          /\ cash = [p \in Procs |-> IF p = 1 THEN c ELSE DefaultCash]
    /\ temp_file = Absent
    /\ text = [p \in Procs |-> {}]
    /\ pc = [p \in Procs |-> IF p = 1 THEN "idle" ELSE "off"]
    /\ op = [p \in Procs |-> Returned(NewOp("init", 0, 0, DefaultCash), "ok", "")]
    /\ crash = [p \in Procs |-> NoCrash]
    /\ failed = [p \in Procs |-> FALSE]
    /\ nOps = [p \in Procs |-> 0]
    /\ nFault = 0

NextBreakdown == \E p \in Procs, a \in BreakdownAmounts : withdraw(p, a)

SpecBreakdown == InitBreakdown /\ [][NextBreakdown]_vars

(***************************************************************************)
(* Vocabulary of the properties.                                           *)
(***************************************************************************)
Running == {p \in Procs : pc[p] # "off"}

\* process p has returned from (or raised in) the operation named `name`
Done(p, name) ==
    pc[p] = "idle" /\ op[p].name = name /\ op[p].result # "running"

Succeeded(p, name) == Done(p, name) /\ op[p].result = "ok"

\* sum(denom * count) of a plan
PlanValue(plan) == TotalOver(plan, DOMAIN plan)

NonNegative(c) == \A d \in DOMAIN c : c[d] >= 0

MinKey(c) == CHOOSE d \in DOMAIN c : \A e \in DOMAIN c : d <= e

\* the largest count of an inventory
MaxCountOf(c) == CHOOSE k \in {c[d] : d \in DOMAIN c} : \A d \in DOMAIN c : c[d] <= k

\* some choice of a count per denomination, 0 <= count <= Inventory[denom],
\* sums exactly to amount
Feasible(c, amount) ==
    \E n \in [DOMAIN c -> 0..Min(amount \div MinKey(c), MaxCountOf(c))] :
        /\ \A d \in DOMAIN c : n[d] <= c[d]
        /\ TotalOver(n, DOMAIN c) = amount

\* C1: a plan returned by a successful withdraw(amount) sums to amount and
\* takes, of every denomination in it, a positive number of notes that is
\* at most the count the inventory held before the call.
C1_PlanSumsAndFits ==
    \A p \in Running :
        Succeeded(p, "withdraw") =>
            /\ PlanValue(op[p].plan) = op[p].a
            /\ \A d \in DOMAIN op[p].plan :
                  /\ d \in DOMAIN op[p].pre
                  /\ op[p].plan[d] > 0
                  /\ op[p].plan[d] <= op[p].pre[d]

\* a withdrawal of 300 served from {500: 0, 200: 1, 100: 1} with one note of
\* 200 and one of 100
C1_Witness ==
    \E p \in Running :
        /\ Succeeded(p, "withdraw")
        /\ op[p].a = 300
        /\ op[p].pre = [d \in {500, 200, 100} |-> IF d = 500 THEN 0 ELSE 1]
        /\ op[p].plan = [d \in {200, 100} |-> 1]

\* C2 as stated: a withdrawal of a positive amount that is a multiple of the
\* smallest denomination of the inventory and at most the total value
\* succeeds whenever some combination of the notes in stock sums to it.
C2_AsStated ==
    \A p \in Running :
        (/\ Done(p, "withdraw")
         /\ op[p].a > 0
         /\ op[p].a % MinKey(op[p].pre) = 0
         /\ op[p].a <= total_balance(op[p].pre)
         /\ Feasible(op[p].pre, op[p].a))
        => op[p].result = "ok"

\* C2, amended: a withdrawal of a positive amount that is a multiple of 100
\* and at most the total value succeeds whenever some combination of the
\* notes in stock sums to it, and so raises InsufficientFundsError only when
\* there is none.
C2_FeasibleIsServed ==
    \A p \in Running :
        (/\ Done(p, "withdraw")
         /\ op[p].a > 0
         /\ op[p].a % Unit = 0
         /\ op[p].a <= total_balance(op[p].pre)
         /\ Feasible(op[p].pre, op[p].a))
        => op[p].result = "ok"

\* 600 served from {500: 1, 200: 3} as three notes of 200: taking the note
\* of 500 first leaves 100, which no note covers
C2_Witness ==
    \E p \in Running :
        /\ Succeeded(p, "withdraw")
        /\ op[p].a = 600
        /\ op[p].pre = [d \in {500, 200} |-> IF d = 500 THEN 1 ELSE 3]
        /\ op[p].plan = [d \in {200} |-> 3]

\* C3: after a successful withdraw the inventory holds, of every
\* denomination of the plan, the count before the call minus the plan's
\* count, and of every other denomination the count before the call.
C3_InventoryDecreasedByPlan ==
    \A p \in Running :
        Succeeded(p, "withdraw") =>
            /\ DOMAIN cash[p] = DOMAIN op[p].pre
            /\ \A d \in DOMAIN op[p].pre :
                  cash[p][d] = IF d \in DOMAIN op[p].plan
                               THEN op[p].pre[d] - op[p].plan[d]
                               ELSE op[p].pre[d]

\* 600 served from {500: 2, 200: 2, 100: 2} leaves {500: 1, 200: 2, 100: 1}
C3_Witness ==
    \E p \in Running :
        /\ Succeeded(p, "withdraw")
        /\ op[p].a = 600
        /\ op[p].pre = [d \in {500, 200, 100} |-> 2]
        /\ op[p].plan = [d \in {500, 100} |-> 1]
        /\ cash[p] = [d \in {500, 200, 100} |-> IF d = 200 THEN 2 ELSE 1]

\* C4 as stated: at rest every count of the in-memory inventory is >= 0, and
\* no state file ever holds a negative count.
C4_AsStated ==
    /\ \A p \in Running :
          pc[p] = "idle" => \A d \in DOMAIN cash[p] : cash[p][d] >= 0
    /\ state_file.kind = "json" => \A m \in state_file.obj : m[2] >= 0

\* C5 as stated: withdraw raises InvalidAmountError whenever the amount is
\* <= 0 or is not a multiple of the smallest denomination of the inventory.
C5_AsStated ==
    \A p \in Running :
        (/\ Done(p, "withdraw")
         /\ (op[p].a <= 0 \/ op[p].a % MinKey(op[p].pre) # 0))
        => op[p].result = "InvalidAmountError"

\* C5, amended: withdraw raises InvalidAmountError whenever the amount is
\* <= 0 or is not a multiple of 100, whatever the inventory; it leaves the
\* inventory as it was and does not run save_state.
C5_InvalidAmountRejected ==
    \A p \in Running :
        (/\ Done(p, "withdraw")
         /\ (op[p].a <= 0 \/ op[p].a % Unit # 0))
        => /\ op[p].result = "InvalidAmountError"
           /\ cash[p] = op[p].pre
           /\ op[p].io = "none"

\* withdraw(150) rejected on an inventory that could cover it
C5_Witness ==
    \E p \in Running :
        /\ Done(p, "withdraw")
        /\ op[p].a = 150
        /\ total_balance(op[p].pre) >= 150
        /\ op[p].result = "InvalidAmountError"
        /\ op[p].msg = "Amount must be a multiple of 100."

\* C6 as stated: add_cash of a negative count to an accepted denomination
\* raises InvalidAmountError, leaves the inventory as it was and does not
\* run save_state.
C6_AsStated ==
    \A p \in Running :
        (/\ Done(p, "add_cash")
         /\ op[p].a \in DOMAIN op[p].pre
         /\ op[p].b < 0)
        => /\ op[p].result = "InvalidAmountError"
           /\ cash[p] = op[p].pre
           /\ op[p].io = "none"

\* C7 as stated: add_cash of a count >= 0 of a denomination that is no key
\* of the inventory raises InvalidAmountError, leaves the inventory and its keys as they
\* were and does not run save_state.
C7_AsStated ==
    \A p \in Running :
        (/\ Done(p, "add_cash")
         /\ op[p].a \notin DOMAIN op[p].pre \cup text[p]
         /\ op[p].b >= 0)
        => /\ op[p].result = "InvalidAmountError"
           /\ cash[p] = op[p].pre
           /\ op[p].io = "none"

\* C8: add_cash of a count >= 0 to an accepted denomination adds exactly
\* that count to the denomination, leaves the other counts as they were and
\* runs save_state on the result: the state file then holds the new
\* inventory, unless a call of save_state raised IOError, which is logged.
C8_AddIncrementsAndSaves ==
    \A p \in Running :
        (/\ Done(p, "add_cash")
         /\ op[p].a \in DOMAIN op[p].pre
         /\ op[p].b >= 0)
        => /\ op[p].result = "ok"
           /\ cash[p] = [d \in DOMAIN op[p].pre |->
                            IF d = op[p].a THEN op[p].pre[d] + op[p].b
                            ELSE op[p].pre[d]]
           /\ op[p].io \in {"saved", "failed"}
           /\ op[p].io = "saved" => state_file = Dump(cash[p])
           /\ op[p].io = "failed" => op[p].log = <<"error", "info">>

\* one note of 200 added to an inventory that held two, and saved
C8_Witness ==
    \E p \in Running :
        /\ Succeeded(p, "add_cash")
        /\ op[p].a = 200 /\ op[p].b = 1
        /\ op[p].pre[200] = 2 /\ cash[p][200] = 3
        /\ op[p].io = "saved"
        /\ state_file = Dump(cash[p])

\* C9: whenever a process is at rest and no call of it has raised IOError
\* since it started, the state file is a JSON object that load_state reads
\* back as the in-memory inventory.
C9_FileEqualsMemory ==
    \A p \in Running :
        (pc[p] = "idle" /\ ~failed[p]) =>
            /\ Loadable(state_file)
            /\ Load(state_file.obj) = cash[p]

\* at rest after a withdraw that changed the inventory and saved it
C9_Witness ==
    \E p \in Running :
        /\ Succeeded(p, "withdraw")
        /\ ~failed[p]
        /\ op[p].io = "saved"
        /\ cash[p] # op[p].pre
        /\ Load(state_file.obj) = cash[p]

\* C10 as stated, for a save_state that found a readable state file and
\* writes an inventory without negative counts: while it runs, the state
\* file holds either what it held when save_state began or the inventory
\* being written; and a process killed inside save_state and started again
\* loads one of those two inventories.
C10_AsStated ==
    \A p \in Running :
        /\ (/\ pc[p] \in SaveSteps
            /\ Loadable(op[p].old)
            /\ NonNegative(cash[p])
            /\ ~failed[p])
              => state_file \in {op[p].old, Dump(cash[p])}
        /\ (/\ crash[p].at # "none"
            /\ Loadable(crash[p].old)
            /\ NonNegative(crash[p].new)
            /\ Done(p, "init")
            /\ ~failed[p])
              => cash[p] \in {crash[p].new, Load(crash[p].old.obj)}

\* C11: at every step inside save_state, the state file, if there is one, is
\* either the file that save_state found when it began or the complete
\* serialization of the inventory being saved: a reader of the path never
\* sees a partly written file.
C11_NoPartialFile ==
    \A p \in Running :
        pc[p] \in SaveSteps =>
            \/ state_file.kind = "absent"
            \/ state_file = op[p].old
            \/ state_file = Dump(cash[p])

\* save_state has just renamed the temporary file over a state file that
\* held another inventory
C11_Witness ==
    \E p \in Running :
        /\ pc[p] = "save_done"
        /\ op[p].io = "saved"
        /\ op[p].old.kind = "json"
        /\ op[p].old # state_file
        /\ state_file = Dump(cash[p])

\* C12: for every inventory a process is about to save, at start-up and
\* after any of its add_cash and withdraw calls, the text save_state writes
\* for it is read back by load_state as exactly that inventory: the same
\* integer keys with the same counts.  And a process that is started again
\* on the file a completed save_state left holds the inventory that was
\* saved.
C12_RoundTrip ==
    \A p \in Running :
        /\ pc[p] = "save_open" =>
              /\ Loadable(Dump(cash[p]))
              /\ Load(Dump(cash[p]).obj) = cash[p]
        /\ (/\ crash[p].at = "save_done"
            /\ Done(p, "init")
            /\ op[p].io = "none"
            /\ state_file = Dump(crash[p].new))
              => cash[p] = crash[p].new

\* a process killed after its save_state had replaced the state file has
\* been started again and holds the inventory it had saved
C12_Witness ==
    \E p \in Running :
        /\ crash[p].at = "save_done"
        /\ Done(p, "init")
        /\ op[p].io = "none"
        /\ state_file = Dump(crash[p].new)
        /\ cash[p] = crash[p].new
        /\ cash[p] # DefaultCash

\* the state file is there and is not a JSON object with integer keys and
\* integer values
Corrupt(f) ==
    f.kind # "absent" /\ ~(Loadable(f) /\ f.text = {})

\* C13 as stated: when __init__ has returned without an IOError and the
\* state file it found was unparseable or had a non-integer key or value, it
\* has logged an error, the in-memory inventory is the default
\* {500: 20, 200: 20, 100: 20}, and the state file holds that default.
C13_AsStated ==
    \A p \in Running :
        (/\ Done(p, "init")
         /\ ~failed[p]
         /\ Corrupt(IF op[p].io = "none" THEN state_file ELSE op[p].old))
        => /\ "error" \in {op[p].log[i] : i \in DOMAIN op[p].log}
           /\ cash[p] = DefaultCash
           /\ text[p] = {}
           /\ state_file = Dump(DefaultCash)

\* C14 as stated: when a call inside the save_state of a withdraw has raised
\* IOError, the withdraw still returns its plan, the in-memory inventory is
\* the one before the call less the plan, the state file holds what it held
\* when save_state began, and the failure was logged at error level.
C14_AsStated ==
    \A p \in Running :
        (Done(p, "withdraw") /\ op[p].io = "failed")
        => /\ op[p].result = "ok"
           /\ cash[p] = Dispense(op[p].pre, op[p].plan)
           /\ cash[p] # op[p].pre
           /\ "error" \in {op[p].log[i] : i \in DOMAIN op[p].log}
           /\ state_file = op[p].old

\* the number of notes a plan takes of a denomination
CountIn(plan, d) == IF d \in DOMAIN plan THEN plan[d] ELSE 0

\* the feasible plans for amount, as count vectors over the denominations of
\* c: every denomination that is used is used at most as often as c holds
\* it, and the notes sum to amount
FeasiblePlans(c, amount) ==
    {n \in [DOMAIN c -> 0..Min(amount \div MinKey(c), MaxCountOf(c))] :
        /\ \A d \in DOMAIN c : n[d] > 0 => n[d] <= c[d]
        /\ TotalOver(n, DOMAIN c) = amount}

\* withdraw has passed its checks and taken the notes of op[p].plan, the plan
\* it returns, out of the inventory, and is about to call save_state
Planned(p) == pc[p] = "save_open" /\ op[p].name = "withdraw"

\* plan is at least n in the lexicographic order that reads the counts from
\* the largest denomination down
LexAtLeast(plan, n) ==
    \A d \in DOMAIN n :
        (/\ CountIn(plan, d) # n[d]
         /\ \A e \in DOMAIN n : e > d => CountIn(plan, e) = n[e])
        => CountIn(plan, d) > n[d]

\* C15: the plan a withdraw that passed its checks returns is one of the
\* feasible plans and is lexicographically the greatest of them, the
\* denominations read in descending order; and it has no entry with count 0.
C15_LexGreatestPlan ==
    \A p \in Running :
        Planned(p) =>
            LET feasible == FeasiblePlans(op[p].pre, op[p].a)
            IN  /\ \A d \in DOMAIN op[p].plan : op[p].plan[d] > 0
                /\ [d \in DOMAIN op[p].pre |-> CountIn(op[p].plan, d)] \in feasible
                /\ \A n \in feasible : LexAtLeast(op[p].plan, n)

\* 600 from {500: 1, 200: 2, 100: 2}: one note of 500 and one of 100 are
\* returned, two of 200 and two of 100 would do as well
C15_Witness ==
    \E p \in Running :
        /\ Planned(p)
        /\ op[p].a = 600
        /\ op[p].pre = [d \in {500, 200, 100} |-> IF d = 500 THEN 1 ELSE 2]
        /\ op[p].plan = [d \in {500, 100} |-> 1]
        /\ [d \in {500, 200, 100} |-> IF d = 500 THEN 0 ELSE 2]
               \in FeasiblePlans(op[p].pre, op[p].a)

\* C16: on an inventory whose values are all integers, a withdraw that fails
\* is classified by the first check that fails, in the order: amount <= 0,
\* amount not a multiple of 100, amount above the total, no plan found.  The
\* first two raise InvalidAmountError whatever the inventory holds; an amount
\* above the total raises InsufficientFundsError with the message of the
\* shortfall even where the search would find a plan; and the two
\* InsufficientFundsError cases carry different messages.
C16_FirstFailingCheck ==
    \A p \in Running :
        (Done(p, "withdraw") /\ text[p] = {}) =>
            LET a == op[p].a
                class == op[p].result
                msg == op[p].msg
            IN  /\ a <= 0 =>
                     class = "InvalidAmountError" /\ msg = "Amount must be positive."
                /\ (a > 0 /\ a % 100 # 0) =>
                     /\ class = "InvalidAmountError"
                     /\ msg = "Amount must be a multiple of 100."
                /\ (a > 0 /\ a % 100 = 0 /\ a > total_balance(op[p].pre)) =>
                     /\ class = "InsufficientFundsError"
                     /\ msg = "ATM Insufficient funds."
                /\ (/\ a > 0 /\ a % 100 = 0 /\ a <= total_balance(op[p].pre)
                    /\ NoPlan(get_breakdown(op[p].pre, a))) =>
                     /\ class = "InsufficientFundsError"
                     /\ msg = CannotDispense
                     /\ msg # "ATM Insufficient funds."
                /\ class \in {"ok", "InvalidAmountError", "InsufficientFundsError"}

\* 300 asked of {500: 2, 200: 0, 100: 0}: positive, a multiple of 100 and
\* below the total of 1000, and no notes add up to it
C16_Witness ==
    \E p \in Running :
        /\ Done(p, "withdraw")
        /\ text[p] = {}
        /\ op[p].a = 300
        /\ op[p].pre = [d \in {500, 200, 100} |-> IF d = 500 THEN 2 ELSE 0]
        /\ op[p].result = "InsufficientFundsError"
        /\ op[p].msg = CannotDispense
        /\ op[p].msg # "ATM Insufficient funds."

\* the inventory that accounts for the last calls of both processes, each of
\* which started on the inventory pre
Merged(pre) == [d \in DOMAIN pre |-> cash[1][d] + cash[2][d] - pre[d]]

\* C17: two processes started on the same state file hold the same
\* inventory, and each completes one add_cash or withdraw that changes its
\* inventory, one call after the other and without any IOError; then the
\* state file holds the inventory of one of the two processes, which is not
\* the inventory that accounts for both calls: one update is lost.
C17_LostUpdate ==
    (/\ \A p \in Procs :
          /\ pc[p] = "idle"
          /\ op[p].name \in {"withdraw", "add_cash"}
          /\ op[p].result = "ok"
          /\ cash[p] # op[p].pre
          /\ ~failed[p]
     /\ op[1].pre = op[2].pre)
    => /\ Loadable(state_file)
       /\ \E p \in Procs : Load(state_file.obj) = cash[p]
       /\ Load(state_file.obj) # Merged(op[1].pre)

\* both processes loaded {500: 20, 200: 20, 100: 20}; one has withdrawn 300,
\* the other 600: notes worth 900 are gone, and the state file accounts for
\* 300 or for 600 of them
C17_Witness ==
    /\ \A p \in Procs :
          /\ Succeeded(p, "withdraw")
          /\ op[p].pre = DefaultCash
          /\ ~failed[p]
    /\ op[1].a = 300 /\ op[2].a = 600
    /\ Loadable(state_file)
    /\ total_balance(Load(state_file.obj))
           > total_balance(DefaultCash) - (op[1].a + op[2].a)
    /\ total_balance(Load(state_file.obj))
           \in {total_balance(DefaultCash) - op[1].a,
                total_balance(DefaultCash) - op[2].a}

\* the step in which process p raises InvalidAmountError or
\* InsufficientFundsError from withdraw
FailsWithdraw(p) ==
    /\ op'[p] # op[p]
    /\ op'[p].name = "withdraw"
    /\ op'[p].result \in {"InvalidAmountError", "InsufficientFundsError"}

\* C18: the step in which a withdraw fails with InvalidAmountError or
\* InsufficientFundsError leaves every in-memory inventory, the state file
\* and the temporary file as they were, and the call has returned: no step
\* of save_state follows it.
C18_FailedWithdrawChangesNothing ==
    [][\A p \in Procs :
          FailsWithdraw(p) =>
              /\ cash' = cash
              /\ text' = text
              /\ state_file' = state_file
              /\ temp_file' = temp_file
              /\ pc[p] = "idle" /\ pc'[p] = "idle"]_vars

\* 300 asked of {500: 2, 200: 0, 100: 0}: the search ran and found no plan;
\* the inventory is as before, no call of save_state was made, and the
\* state file still holds the inventory
C18_Witness ==
    \E p \in Running :
        /\ Done(p, "withdraw")
        /\ op[p].a = 300
        /\ op[p].result = "InsufficientFundsError"
        /\ op[p].msg = CannotDispense
        /\ op[p].pre = [d \in {500, 200, 100} |-> IF d = 500 THEN 2 ELSE 0]
        /\ cash[p] = op[p].pre
        /\ op[p].io = "none"
        /\ state_file = Dump(op[p].pre)
        /\ temp_file = Absent

\* what the step adds to the total of process p: the value of the notes of
\* an add_cash that is accepted, minus the amount of a withdraw that is
\* served, and nothing in any other step
ValueMoved(p) ==
    IF pc[p] = "idle" /\ pc'[p] = "save_open"
    THEN IF op'[p].name = "withdraw" THEN 0 - op'[p].a
         ELSE op'[p].a * op'[p].b
    ELSE 0

\* C19: once __init__ has set the inventory of a process, every step changes
\* the total value of that inventory by exactly the value the step moves:
\* plus denomination * count for an accepted add_cash, minus the amount for
\* a served withdraw, and zero for a call that fails and for every step of
\* save_state.  So the total is always the total at initialization plus
\* the successful additions minus the successful withdrawals.  (A restart
\* begins a new initialization; the inventory is one of integers.)
C19_CashConserved ==
    [][\A p \in Procs :
          (/\ pc[p] \notin {"off", "load"}
           /\ pc'[p] # "load"
           /\ text[p] = {})
          => total_balance(cash'[p]) = total_balance(cash[p]) + ValueMoved(p)]_vars

\* 700 withdrawn from the inventory loaded at start-up, a total of 1600: the
\* process holds 900
C19_Witness ==
    \E p \in Running :
        /\ Succeeded(p, "withdraw")
        /\ nOps[p] = 1
        /\ op[p].a = 700
        /\ total_balance(op[p].pre) = 1600
        /\ total_balance(cash[p]) = 900

\* the number of notes of a count vector or of a plan
RECURSIVE NotesOver(_, _)
NotesOver(n, S) ==
    IF S = {} THEN 0
    ELSE LET d == CHOOSE x \in S : TRUE
         IN  n[d] + NotesOver(n, S \ {d})

Notes(n) == NotesOver(n, DOMAIN n)

\* C20: on an inventory whose denominations are 500, 200 and 100, the plan a
\* withdraw that passed its checks returns takes no more notes than any
\* feasible plan for the amount.
C20_FewestNotes ==
    \A p \in Running :
        (Planned(p) /\ DOMAIN op[p].pre = {500, 200, 100}) =>
            \A n \in FeasiblePlans(op[p].pre, op[p].a) :
                Notes(op[p].plan) <= Notes(n)

\* 600 from {500: 1, 200: 2, 100: 2}: two notes are returned where two of
\* 200 and two of 100, four notes, would do as well
C20_Witness ==
    \E p \in Running :
        /\ Planned(p)
        /\ op[p].a = 600
        /\ op[p].pre = [d \in {500, 200, 100} |-> IF d = 500 THEN 1 ELSE 2]
        /\ Notes(op[p].plan) = 2
        /\ \E n \in FeasiblePlans(op[p].pre, op[p].a) : Notes(n) = 4

====
